---- MODULE Spec2Model ----
(***************************************************************************)
(* Order lifecycle, queue numbering and bay admission of the LLN API.      *)
(* The MongoDB "orders" collection is the shared state; every HTTP handler *)
(* is a sequence of store operations (FindOne / Find / CountDocuments /    *)
(* InsertOne / UpdateOne), each of which is one atomic step.  Handlers of  *)
(* different requests interleave between their store operations.           *)
(***************************************************************************)
EXTENDS Integers, Sequences, FiniteSets, TLC

VARIABLES
    orders,   \* the "orders" collection: order id -> document
    notes,    \* the "delivery_notes" collection: set of [id, order_id]
    notifications, \* the "notifications" collection: set of [type, ref, sent_via]
    nextId,   \* next fresh ObjectID for an order
    procs,    \* in-flight requests: their handler, position and locals
    now,      \* the wall clock (an instant, in ticks)
    tz,       \* the server's fixed zone offset (ticks east of UTC)
    WhatsApp, \* the WhatsApp client singleton: initialized, connected, loggedIn
    users     \* the "users" collection: set of [id, role]

vars == <<orders, notes, notifications, nextId, procs, now, tz, WhatsApp, users>>

----------------------------------------------------------------------------
(* Bounds of the model *)

MaxOrders == 1      \* orders ever created under Spec
MaxProcs == 2       \* concurrently executing requests under Spec
MaxQueue == 3       \* largest queue number a scan may issue
MaxNotes == 2       \* delivery notes ever inserted
MaxTime == 2        \* last clock tick
PayOrders == 2      \* orders in the payment scenario
StatusOrders == 4   \* orders in the queue-status scenario
BayOrders == 3      \* orders in the bay scenarios
ScanOrders == 3     \* orders (and requests) in the scan scenarios
GenesisRequests == 3 \* requests in the Genesis scenario
MaxUsers == 3       \* accounts ever inserted

(* Program constants *)

DayLen == 2                  \* 24 * time.Hour, in ticks
QueueDurationMinutes == 30

OrderStatusPending == "pending"
OrderStatusPaid == "paid"
OrderStatusConfirmed == "confirmed"
OrderStatusQueued == "queued"
OrderStatusLoading == "loading"
OrderStatusCompleted == "completed"
OrderStatusCancelled == "cancelled"

PaymentStatusPending == "pending"
PaymentStatusVerified == "verified"
PaymentStatusRejected == "rejected"

OrderStatuses ==
    {OrderStatusPending, OrderStatusPaid, OrderStatusConfirmed, OrderStatusQueued,
     OrderStatusLoading, OrderStatusCompleted, OrderStatusCancelled}

\* a nil *time.Time
NilTime == -1

\* the zone offsets a server may be configured with: UTC, or half a day east
TzOffsets == {0, 1}

----------------------------------------------------------------------------
(* Documents *)

\* models.NewOrder as completed by OrderHandler.Create
NewOrder ==
    [status |-> OrderStatusPending,
     payment_status |-> PaymentStatusPending,
     payment_proof |-> FALSE,
     driver_name |-> FALSE,
     driver_phone |-> FALSE,
     vehicle_plate |-> FALSE,
     queue_barcode |-> FALSE,
     queue_number |-> 0,
     queue_entered_at |-> NilTime,
     estimated_time |-> 0,
     delivery_note_id |-> 0,
     completed_at |-> NilTime,
     payment_rejected_at |-> NilTime,
     payment_rejected_by |-> "",
     payment_reject_reason |-> ""]

\* a request slot with no request in it
IdleProc ==
    [op |-> "none", pc |-> "idle", id |-> 0, num |-> 0, at |-> 0, res |-> 0, wait |-> <<>>,
     by |-> "", reason |-> "", auto_sent |-> FALSE, http |-> 0]

Procs == DOMAIN procs

Exists(id) == id \in DOMAIN orders

\* the handler of request p starts: remember which handler and which order
Begin(p, op, id, pc) ==
    procs' = [procs EXCEPT ![p] = [IdleProc EXCEPT !.op = op, !.pc = pc, !.id = id]]

\* the status a response helper puts on the wire and in the body, for the
\* outcome it is named after: response.NotFound ("sends a 404 response")
\* calls c.Status(200) and writes "status": 200; the others write their own
HttpStatus(code) == IF code = 404 THEN 200 ELSE code

\* the handler of request p returns through the response helper of this
\* outcome: res is the outcome (404 for response.NotFound), http the status
\* the helper writes
Respond(p, op, id, code) ==
    procs' = [procs EXCEPT ![p] =
        [IdleProc EXCEPT !.op = op, !.pc = "done", !.id = id, !.res = code,
                         !.http = HttpStatus(code)]]

\* UpdateOne(filter {_id: id}, {$set: patch}): no document matched means no change
UpdateOne(id, patch) ==
    IF Exists(id)
    THEN [orders EXCEPT ![id] = [f \in DOMAIN @ |-> IF f \in DOMAIN patch THEN patch[f] ELSE @[f]]]
    ELSE orders

----------------------------------------------------------------------------
(* The WhatsApp client *)

\* whatsapp.WhatsApp after Init succeeded, the QR code was scanned and the
\* connection is up
LinkedClient == [initialized |-> TRUE, connected |-> TRUE, loggedIn |-> TRUE]

\* whatsapp.WhatsApp before any event: nil when Init failed, otherwise a
\* Client whose connected and loggedIn are false
FreshClients ==
    {[initialized |-> i, connected |-> FALSE, loggedIn |-> FALSE] : i \in BOOLEAN}

\* a handleLoggedOut that forgets the connection flag, to see that the
\* relation between the two flags depends on both being cleared
handleLoggedOutKeepsConnection ==
    /\ WhatsApp.initialized
    /\ WhatsApp' = [WhatsApp EXCEPT !.loggedIn = FALSE]
    /\ UNCHANGED <<orders, notes, notifications, nextId, procs, now, tz, users>>

\* Client.handleConnected, on events.Connected and on events.PairSuccess
handleConnected ==
    /\ WhatsApp.initialized
    /\ WhatsApp' = [WhatsApp EXCEPT !.connected = TRUE, !.loggedIn = TRUE]
    /\ UNCHANGED <<orders, notes, notifications, nextId, procs, now, tz, users>>

\* Client.handleDisconnected, on events.Disconnected
handleDisconnected ==
    /\ WhatsApp.initialized
    /\ WhatsApp' = [WhatsApp EXCEPT !.connected = FALSE]
    /\ UNCHANGED <<orders, notes, notifications, nextId, procs, now, tz, users>>

\* Client.handleLoggedOut, on events.LoggedOut
handleLoggedOut ==
    /\ WhatsApp.initialized
    /\ WhatsApp' = [WhatsApp EXCEPT !.loggedIn = FALSE, !.connected = FALSE]
    /\ UNCHANGED <<orders, notes, notifications, nextId, procs, now, tz, users>>

\* Client.Logout: the error of client.Logout is logged, the flags are cleared
Logout ==
    /\ WhatsApp.initialized
    /\ WhatsApp' = [WhatsApp EXCEPT !.loggedIn = FALSE, !.connected = FALSE]
    /\ UNCHANGED <<orders, notes, notifications, nextId, procs, now, tz, users>>

\* notification.WhatsAppStatus()["logged_in"]
WhatsAppLoggedIn == WhatsApp.initialized /\ WhatsApp.loggedIn

----------------------------------------------------------------------------
(* Notifications *)

\* what a send attempt may meet: the client was never initialised, it is not
\* logged in, SendMessage returns an error, or the message goes out
WhatsAppStates == {"nil", "logged_out", "send_error", "ok"}

\* what a send attempt can meet with the client as it is now: SendMessage
\* answers "not connected" without a connection, and with one the send may
\* still fail
SendOutcomes ==
    IF ~WhatsApp.initialized THEN {"nil"}
    ELSE IF ~WhatsApp.loggedIn THEN {"logged_out"}
    ELSE IF ~WhatsApp.connected THEN {"send_error"}
    ELSE {"send_error", "ok"}

\* notification.sendViaWhatsApp: TRUE only when the message was sent
sendViaWhatsApp(wa) == wa = "ok"

\* the 201 of a command that notifies: whatsapp_auto_sent is
\* WhatsAppStatus()["logged_in"], read after the send attempt
RespondNotified(p, op, id, code) ==
    procs' = [procs EXCEPT ![p] =
        [IdleProc EXCEPT !.op = op, !.pc = "done", !.id = id, !.res = code,
                         !.http = HttpStatus(code), !.auto_sent = WhatsAppLoggedIn]]

\* the body shared by notification.SendInvoiceNotification and
\* SendDeliveryNotification: try to send, then InsertOne the record (stored =
\* the InsertOne succeeded); the record carries the order through its message
SendNotification(type, ref, wa, stored) ==
    IF stored
    THEN notifications \cup
            {[type |-> type, ref |-> ref,
              sent_via |-> IF sendViaWhatsApp(wa) THEN "whatsapp" ELSE "wa.me"]}
    ELSE notifications

----------------------------------------------------------------------------
(* Order CRUD: single store operations *)

\* OrderHandler.Create: validation, then InsertOne of a pending order
Create(p, valid) ==
    /\ procs[p].pc = "idle"
    /\ IF ~valid
       THEN /\ Respond(p, "Create", 0, 400)
            /\ UNCHANGED <<orders, nextId>>
       ELSE /\ nextId <= MaxOrders
            /\ orders' = (nextId :> NewOrder) @@ orders
            /\ nextId' = nextId + 1
            /\ Begin(p, "Create", nextId, "inserted")
    /\ UNCHANGED <<notes, notifications, now, tz, WhatsApp, users>>

\* a Create that answers 500 when the notification record was not stored,
\* to see that the property about notification failures depends on the
\* discarded error
CreateNotifyStrict(p, wa, stored) ==
    /\ procs[p].op = "Create" /\ procs[p].pc = "inserted"
    /\ wa \in SendOutcomes
    /\ notifications' = SendNotification("invoice", procs[p].id, wa, stored)
    /\ IF stored THEN RespondNotified(p, "Create", procs[p].id, 201)
       ELSE Respond(p, "Create", procs[p].id, 500)
    /\ UNCHANGED <<orders, notes, nextId, now, tz, WhatsApp, users>>

\* OrderHandler.Create, the invoice notification, whose error is discarded
CreateNotify(p, wa, stored) ==
    /\ procs[p].op = "Create" /\ procs[p].pc = "inserted"
    /\ wa \in SendOutcomes
    /\ notifications' = SendNotification("invoice", procs[p].id, wa, stored)
    /\ RespondNotified(p, "Create", procs[p].id, 201)
    /\ UNCHANGED <<orders, notes, nextId, now, tz, WhatsApp, users>>

\* the status strings a client may send to OrderHandler.Update ("" = omitted)
UpdateInputs == OrderStatuses \cup {"", "bogus"}

\* OrderHandler.Update: writes whatever status the request carries
Update(p, id, st) ==
    /\ procs[p].pc = "idle"
    /\ orders' = IF st # "" THEN UpdateOne(id, [status |-> st]) ELSE orders
    /\ Respond(p, "Update", id, IF Exists(id) THEN 200 ELSE 404)
    /\ UNCHANGED <<notes, notifications, nextId, now, tz, WhatsApp, users>>

\* OrderHandler.Delete: cancels, whatever the current status
Delete(p, id) ==
    /\ procs[p].pc = "idle"
    /\ orders' = UpdateOne(id, [status |-> OrderStatusCancelled])
    /\ Respond(p, "Delete", id, IF Exists(id) THEN 200 ELSE 404)
    /\ UNCHANGED <<notes, notifications, nextId, now, tz, WhatsApp, users>>

\* MigrationHandler.ResetOrders: drops the collections
ResetOrders(p) ==
    /\ procs[p].pc = "idle"
    /\ orders' = <<>>
    /\ notes' = {}
    /\ notifications' = {}
    /\ Respond(p, "ResetOrders", 0, 200)
    /\ UNCHANGED <<nextId, now, tz, WhatsApp, users>>

----------------------------------------------------------------------------
(* Payment *)

\* ClientHandler.UploadPayment, up to its FindOne and checks
UploadPaymentRead(p, id) ==
    /\ procs[p].pc = "idle"
    /\ IF ~Exists(id) THEN Respond(p, "UploadPayment", id, 404)
       ELSE IF orders[id].status # OrderStatusPending THEN Respond(p, "UploadPayment", id, 400)
       ELSE IF orders[id].payment_status = PaymentStatusVerified THEN Respond(p, "UploadPayment", id, 400)
       ELSE Begin(p, "UploadPayment", id, "checked")
    /\ UNCHANGED <<orders, notes, notifications, nextId, now, tz, WhatsApp, users>>

\* ClientHandler.UploadPayment, its UpdateOne
UploadPaymentWrite(p) ==
    /\ procs[p].op = "UploadPayment" /\ procs[p].pc = "checked"
    /\ orders' = UpdateOne(procs[p].id, [payment_proof |-> TRUE, status |-> OrderStatusPaid])
    /\ Respond(p, "UploadPayment", procs[p].id, 200)
    /\ UNCHANGED <<notes, notifications, nextId, now, tz, WhatsApp, users>>

\* PaymentHandler.Verify, up to its FindOne and checks
VerifyRead(p, id) ==
    /\ procs[p].pc = "idle"
    /\ IF ~Exists(id) THEN Respond(p, "Verify", id, 404)
       ELSE IF ~orders[id].payment_proof THEN Respond(p, "Verify", id, 400)
       ELSE IF orders[id].payment_status # PaymentStatusPending THEN Respond(p, "Verify", id, 400)
       ELSE Begin(p, "Verify", id, "checked")
    /\ UNCHANGED <<orders, notes, notifications, nextId, now, tz, WhatsApp, users>>

\* PaymentHandler.Verify, its UpdateOne
VerifyWrite(p) ==
    /\ procs[p].op = "Verify" /\ procs[p].pc = "checked"
    /\ orders' = UpdateOne(procs[p].id,
                    [payment_status |-> PaymentStatusVerified, status |-> OrderStatusConfirmed])
    /\ Respond(p, "Verify", procs[p].id, IF Exists(procs[p].id) THEN 200 ELSE 404)
    /\ UNCHANGED <<notes, notifications, nextId, now, tz, WhatsApp, users>>

\* the users middleware.GetUserID may report, and the reasons a RejectRequest
\* may carry (the reason is not validated and may be empty)
UserIds == {"finance"}
RejectReasons == {"", "unreadable"}

\* the request of p is a Reject of order id by this user with this reason
BeginReject(p, id, by, reason) ==
    procs' = [procs EXCEPT ![p] =
        [IdleProc EXCEPT !.op = "Reject", !.pc = "checked", !.id = id,
                         !.by = by, !.reason = reason]]

\* a Reject without the payment_status check, to see that the properties
\* about resolved payments depend on that check
RejectReadUnchecked(p, id, by, reason) ==
    /\ procs[p].pc = "idle"
    /\ IF ~Exists(id) THEN Respond(p, "Reject", id, 404)
       ELSE BeginReject(p, id, by, reason)
    /\ UNCHANGED <<orders, notes, notifications, nextId, now, tz, WhatsApp, users>>

\* PaymentHandler.Reject, up to its FindOne and check
RejectRead(p, id, by, reason) ==
    /\ procs[p].pc = "idle"
    /\ IF ~Exists(id) THEN Respond(p, "Reject", id, 404)
       ELSE IF orders[id].payment_status # PaymentStatusPending THEN Respond(p, "Reject", id, 400)
       ELSE BeginReject(p, id, by, reason)
    /\ UNCHANGED <<orders, notes, notifications, nextId, now, tz, WhatsApp, users>>

\* a Reject that also sends the order back to pending, to see that the
\* property about what a rejection leaves alone depends on the $set
RejectWriteResetsStatus(p) ==
    /\ procs[p].op = "Reject" /\ procs[p].pc = "checked"
    /\ orders' = UpdateOne(procs[p].id,
                    [payment_status |-> PaymentStatusRejected,
                     payment_rejected_at |-> now,
                     payment_rejected_by |-> procs[p].by,
                     payment_reject_reason |-> procs[p].reason,
                     status |-> OrderStatusPending])
    /\ Respond(p, "Reject", procs[p].id, IF Exists(procs[p].id) THEN 200 ELSE 404)
    /\ UNCHANGED <<notes, notifications, nextId, now, tz, WhatsApp, users>>

\* PaymentHandler.Reject, its UpdateOne
RejectWrite(p) ==
    /\ procs[p].op = "Reject" /\ procs[p].pc = "checked"
    /\ orders' = UpdateOne(procs[p].id,
                    [payment_status |-> PaymentStatusRejected,
                     payment_rejected_at |-> now,
                     payment_rejected_by |-> procs[p].by,
                     payment_reject_reason |-> procs[p].reason])
    /\ Respond(p, "Reject", procs[p].id, IF Exists(procs[p].id) THEN 200 ELSE 404)
    /\ UNCHANGED <<notes, notifications, nextId, now, tz, WhatsApp, users>>

----------------------------------------------------------------------------
(* Driver data *)

\* ClientHandler.SubmitDriver, up to its FindOne and checks; the three
\* request fields are given as "is non-empty"
SubmitDriverRead(p, id, name, phone, plate) ==
    /\ procs[p].pc = "idle"
    /\ IF ~(name /\ phone /\ plate) THEN Respond(p, "SubmitDriver", id, 400)
       ELSE IF ~Exists(id) THEN Respond(p, "SubmitDriver", id, 404)
       ELSE IF orders[id].payment_status # PaymentStatusVerified THEN Respond(p, "SubmitDriver", id, 400)
       ELSE Begin(p, "SubmitDriver", id, "checked")
    /\ UNCHANGED <<orders, notes, notifications, nextId, now, tz, WhatsApp, users>>

\* ClientHandler.SubmitDriver, its UpdateOne
SubmitDriverWrite(p) ==
    /\ procs[p].op = "SubmitDriver" /\ procs[p].pc = "checked"
    /\ orders' = UpdateOne(procs[p].id,
                    [driver_name |-> TRUE, driver_phone |-> TRUE, vehicle_plate |-> TRUE,
                     queue_barcode |-> TRUE])
    /\ Respond(p, "SubmitDriver", procs[p].id, 200)
    /\ UNCHANGED <<notes, notifications, nextId, now, tz, WhatsApp, users>>

----------------------------------------------------------------------------
(* Queue entry *)

\* time.Now().Format("2006-01-02"): the server-local calendar day of instant t
LocalDay(t) == (t + tz) \div DayLen

\* time.Parse("2006-01-02", today): that date read back as midnight UTC
TodayStart(t) == LocalDay(t) * DayLen

\* Find({queue_entered_at: {$gte: todayStart, $lt: todayEnd}})
TodayOrders(todayStart) ==
    {o \in DOMAIN orders :
        /\ orders[o].queue_entered_at # NilTime
        /\ orders[o].queue_entered_at >= todayStart
        /\ orders[o].queue_entered_at < todayStart + DayLen}

\* the loop that takes the largest queue_number of todayOrders, from 0
MaxQueueOf(S) ==
    IF S = {} THEN 0
    ELSE CHOOSE n \in {orders[o].queue_number : o \in S} :
            \A o \in S : orders[o].queue_number <= n

\* QueueHandler.Scan, up to the FindOne by barcode and the checks; the
\* barcode presented is the one last issued to order id
ScanRead(p, id) ==
    /\ procs[p].pc = "idle"
    /\ IF ~(Exists(id) /\ orders[id].queue_barcode) THEN Respond(p, "Scan", id, 404)
       ELSE IF orders[id].status # OrderStatusConfirmed THEN Respond(p, "Scan", id, 400)
       ELSE IF ~(orders[id].driver_name /\ orders[id].driver_phone /\ orders[id].vehicle_plate)
            THEN Respond(p, "Scan", id, 400)
       ELSE procs' = [procs EXCEPT ![p] =
                [IdleProc EXCEPT !.op = "Scan", !.pc = "found", !.id = id, !.at = TodayStart(now)]]
    /\ UNCHANGED <<orders, notes, notifications, nextId, now, tz, WhatsApp, users>>

\* QueueHandler.Scan, the Find of today's entries: queueNumber := maxQueue + 1
\* and now := time.Now()
ScanNumber(p) ==
    /\ procs[p].op = "Scan" /\ procs[p].pc = "found"
    /\ MaxQueueOf(TodayOrders(procs[p].at)) < MaxQueue
    /\ procs' = [procs EXCEPT ![p] =
            [@ EXCEPT !.pc = "numbered",
                      !.num = MaxQueueOf(TodayOrders(procs[p].at)) + 1,
                      !.at = now]]
    /\ UNCHANGED <<orders, notes, notifications, nextId, now, tz, WhatsApp, users>>

\* QueueHandler.Scan, its UpdateOne
ScanWrite(p) ==
    /\ procs[p].op = "Scan" /\ procs[p].pc = "numbered"
    /\ orders' = UpdateOne(procs[p].id,
                    [queue_number |-> procs[p].num,
                     queue_barcode |-> FALSE,
                     queue_entered_at |-> procs[p].at,
                     estimated_time |-> (procs[p].num - 1) * QueueDurationMinutes,
                     status |-> OrderStatusQueued])
    /\ Respond(p, "Scan", procs[p].id, 200)
    /\ UNCHANGED <<notes, notifications, nextId, now, tz, WhatsApp, users>>

----------------------------------------------------------------------------
(* Bay admission *)

\* CountDocuments({status: loading})
LoadingCount == Cardinality({o \in DOMAIN orders : orders[o].status = OrderStatusLoading})

\* the documents FindOne({status: queued}, sort queue_number ascending) may return
NextQueued ==
    {o \in DOMAIN orders :
        /\ orders[o].status = OrderStatusQueued
        /\ \A q \in DOMAIN orders :
              orders[q].status = OrderStatusQueued
                  => orders[o].queue_number <= orders[q].queue_number}

\* QueueHandler.CallNext, its CountDocuments of loading orders:
\* loadingCount, _ := ... discards the error, and a count that failed
\* (ok = FALSE) reads as 0
CallNextCount(p, ok) ==
    /\ procs[p].pc = "idle"
    /\ IF ok /\ LoadingCount > 0 THEN Respond(p, "CallNext", 0, 400)
       ELSE Begin(p, "CallNext", 0, "counted")
    /\ UNCHANGED <<orders, notes, notifications, nextId, now, tz, WhatsApp, users>>

\* QueueHandler.CallNext, its FindOne of the next queued order
CallNextFind(p) ==
    /\ procs[p].op = "CallNext" /\ procs[p].pc = "counted"
    /\ IF NextQueued = {} THEN Respond(p, "CallNext", 0, 404)
       ELSE \E o \in NextQueued : Begin(p, "CallNext", o, "found")
    /\ UNCHANGED <<orders, notes, notifications, nextId, now, tz, WhatsApp, users>>

\* QueueHandler.CallNext, its UpdateOne
CallNextWrite(p) ==
    /\ procs[p].op = "CallNext" /\ procs[p].pc = "found"
    /\ orders' = UpdateOne(procs[p].id, [status |-> OrderStatusLoading])
    /\ Respond(p, "CallNext", procs[p].id, 200)
    /\ UNCHANGED <<notes, notifications, nextId, now, tz, WhatsApp, users>>

\* OrderHandler.CallQueue, up to its FindOne and check
CallQueueRead(p, id) ==
    /\ procs[p].pc = "idle"
    /\ IF ~Exists(id) THEN Respond(p, "CallQueue", id, 404)
       ELSE IF orders[id].status # OrderStatusQueued THEN Respond(p, "CallQueue", id, 400)
       ELSE Begin(p, "CallQueue", id, "checked")
    /\ UNCHANGED <<orders, notes, notifications, nextId, now, tz, WhatsApp, users>>

\* OrderHandler.CallQueue, its UpdateOne
CallQueueWrite(p) ==
    /\ procs[p].op = "CallQueue" /\ procs[p].pc = "checked"
    /\ orders' = UpdateOne(procs[p].id, [status |-> OrderStatusLoading])
    /\ Respond(p, "CallQueue", procs[p].id, IF Exists(procs[p].id) THEN 200 ELSE 404)
    /\ UNCHANGED <<notes, notifications, nextId, now, tz, WhatsApp, users>>

\* OrderHandler.FinishLoading, up to its FindOne and check
FinishLoadingRead(p, id) ==
    /\ procs[p].pc = "idle"
    /\ IF ~Exists(id) THEN Respond(p, "FinishLoading", id, 404)
       ELSE IF orders[id].status # OrderStatusLoading THEN Respond(p, "FinishLoading", id, 400)
       ELSE Begin(p, "FinishLoading", id, "checked")
    /\ UNCHANGED <<orders, notes, notifications, nextId, now, tz, WhatsApp, users>>

\* OrderHandler.FinishLoading, its UpdateOne
FinishLoadingWrite(p) ==
    /\ procs[p].op = "FinishLoading" /\ procs[p].pc = "checked"
    /\ orders' = UpdateOne(procs[p].id,
                    [status |-> OrderStatusCompleted, completed_at |-> now])
    /\ Respond(p, "FinishLoading", procs[p].id, IF Exists(procs[p].id) THEN 200 ELSE 404)
    /\ UNCHANGED <<notes, notifications, nextId, now, tz, WhatsApp, users>>

----------------------------------------------------------------------------
(* Queue status, as the customer sees it *)

\* formatDuration: "N menit", "H jam" or "H jam M menit", as its words
formatDuration(minutes) ==
    IF minutes < 60 THEN <<minutes, "menit">>
    ELSE IF minutes % 60 = 0 THEN <<minutes \div 60, "jam">>
    ELSE <<minutes \div 60, "jam", minutes % 60, "menit">>

\* a count that leaves out the order at the bay, to see that the property
\* about the reported wait depends on what is counted
OrdersAheadQueuedOnly(n) ==
    Cardinality({o \in DOMAIN orders :
        /\ orders[o].status = OrderStatusQueued
        /\ orders[o].queue_number < n})

\* CountDocuments({status: {$in: [queued, loading]}, queue_number: {$lt: n}})
OrdersAhead(n) ==
    Cardinality({o \in DOMAIN orders :
        /\ orders[o].status \in {OrderStatusQueued, OrderStatusLoading}
        /\ orders[o].queue_number < n})

\* ClientHandler.GetQueueStatus, its FindOne of the order; an order that is
\* not queued is reported with an empty estimated_wait
GetQueueStatusFind(p, id) ==
    /\ procs[p].pc = "idle"
    /\ IF ~Exists(id) THEN Respond(p, "GetQueueStatus", id, 404)
       ELSE IF orders[id].status # OrderStatusQueued
            THEN procs' = [procs EXCEPT ![p] =
                    [IdleProc EXCEPT !.op = "GetQueueStatus", !.pc = "done", !.id = id,
                                     !.num = orders[id].queue_number, !.res = 200,
                                     !.http = HttpStatus(200)]]
       ELSE procs' = [procs EXCEPT ![p] =
                [IdleProc EXCEPT !.op = "GetQueueStatus", !.pc = "found", !.id = id,
                                 !.num = orders[id].queue_number]]
    /\ UNCHANGED <<orders, notes, notifications, nextId, now, tz, WhatsApp, users>>

\* ClientHandler.GetQueueStatus, its CountDocuments of the orders ahead and
\* the response: num = queue_number, at = orders_ahead, wait = estimated_wait
GetQueueStatusCount(p) ==
    /\ procs[p].op = "GetQueueStatus" /\ procs[p].pc = "found"
    /\ procs' = [procs EXCEPT ![p] =
            [@ EXCEPT !.pc = "done", !.res = 200, !.http = HttpStatus(200),
                      !.at = OrdersAhead(procs[p].num),
                      !.wait = formatDuration(OrdersAhead(procs[p].num) * QueueDurationMinutes)]]
    /\ UNCHANGED <<orders, notes, notifications, nextId, now, tz, WhatsApp, users>>

\* ClientHandler.GetOrderStatus: one FindOne, and the response carries the
\* order's stored fields: num = queue_number, at = estimated_time (kept here
\* as the minutes after queue entry that Scan added to its clock reading)
GetOrderStatus(p, id) ==
    /\ procs[p].pc = "idle"
    /\ IF ~Exists(id) THEN Respond(p, "GetOrderStatus", id, 404)
       ELSE procs' = [procs EXCEPT ![p] =
                [IdleProc EXCEPT !.op = "GetOrderStatus", !.pc = "done", !.id = id,
                                 !.num = orders[id].queue_number,
                                 !.at = orders[id].estimated_time,
                                 !.res = 200, !.http = HttpStatus(200)]]
    /\ UNCHANGED <<orders, notes, notifications, nextId, now, tz, WhatsApp, users>>

----------------------------------------------------------------------------
(* Delivery notes *)

\* DeliveryHandler.Create, up to the FindOne of the order and the check
DeliveryCreateRead(p, id) ==
    /\ procs[p].pc = "idle"
    /\ IF ~Exists(id) THEN Respond(p, "DeliveryCreate", id, 404)
       ELSE IF orders[id].status # OrderStatusLoading THEN Respond(p, "DeliveryCreate", id, 400)
       ELSE Begin(p, "DeliveryCreate", id, "checked")
    /\ UNCHANGED <<orders, notes, notifications, nextId, now, tz, WhatsApp, users>>

\* DeliveryHandler.Create, the InsertOne of the note (ok = the store
\* performed it; otherwise the handler answers 500)
DeliveryCreateInsert(p, ok) ==
    /\ procs[p].op = "DeliveryCreate" /\ procs[p].pc = "checked"
    /\ IF ok
       THEN /\ Cardinality(notes) < MaxNotes
            /\ notes' = notes \cup {[id |-> Cardinality(notes) + 1, order_id |-> procs[p].id]}
            /\ procs' = [procs EXCEPT ![p] =
                    [@ EXCEPT !.pc = "inserted", !.num = Cardinality(notes) + 1]]
       ELSE /\ notes' = notes
            /\ Respond(p, "DeliveryCreate", procs[p].id, 500)
    /\ UNCHANGED <<orders, notifications, nextId, now, tz, WhatsApp, users>>

\* DeliveryHandler.Create, the UpdateOne of the order (ok = the store
\* performed it; otherwise the handler answers 500)
DeliveryCreateUpdate(p, ok) ==
    /\ procs[p].op = "DeliveryCreate" /\ procs[p].pc = "inserted"
    /\ IF ok
       THEN /\ orders' = UpdateOne(procs[p].id,
                    [delivery_note_id |-> procs[p].num, status |-> OrderStatusCompleted,
                     completed_at |-> now])
            /\ procs' = [procs EXCEPT ![p] = [@ EXCEPT !.pc = "updated"]]
       ELSE /\ orders' = orders
            /\ Respond(p, "DeliveryCreate", procs[p].id, 500)
    /\ UNCHANGED <<notes, notifications, nextId, now, tz, WhatsApp, users>>

\* DeliveryHandler.Create, the delivery notification, whose error is discarded
DeliveryCreateNotify(p, wa, stored) ==
    /\ procs[p].op = "DeliveryCreate" /\ procs[p].pc = "updated"
    /\ wa \in SendOutcomes
    /\ notifications' = SendNotification("delivery", procs[p].id, wa, stored)
    /\ RespondNotified(p, "DeliveryCreate", procs[p].id, 201)
    /\ UNCHANGED <<orders, notes, nextId, now, tz, WhatsApp, users>>

----------------------------------------------------------------------------
(* Genesis *)

\* AuthHandler.Genesis, its CountDocuments of the superadmins:
\* count, _ := ... discards the error, and a count that failed (ok = FALSE)
\* reads as 0
GenesisCount(p, ok) ==
    /\ procs[p].pc = "idle"
    /\ IF ok /\ users # {} THEN Respond(p, "Genesis", 0, 400)
       ELSE Begin(p, "Genesis", 0, "counted")
    /\ UNCHANGED <<orders, notes, notifications, nextId, now, tz, WhatsApp, users>>

\* AuthHandler.Genesis, its InsertOne of the superadmin (ok = the store
\* performed it; otherwise the handler answers 500)
GenesisInsert(p, ok) ==
    /\ procs[p].op = "Genesis" /\ procs[p].pc = "counted"
    /\ IF ok
       THEN /\ users' = users \cup {[id |-> Cardinality(users) + 1, role |-> "SUPERADMIN"]}
            /\ Respond(p, "Genesis", Cardinality(users) + 1, 201)
       ELSE /\ users' = users
            /\ Respond(p, "Genesis", 0, 500)
    /\ UNCHANGED <<orders, notes, notifications, nextId, now, tz, WhatsApp>>

----------------------------------------------------------------------------
(* Environment *)

\* the response of request p reaches its client; the slot is free again
Return(p) ==
    /\ procs[p].pc = "done"
    /\ procs' = [procs EXCEPT ![p] = IdleProc]
    /\ UNCHANGED <<orders, notes, notifications, nextId, now, tz, WhatsApp, users>>

\* the wall clock advances
Tick ==
    /\ now < MaxTime
    /\ now' = now + 1
    /\ UNCHANGED <<orders, notes, notifications, nextId, procs, tz, WhatsApp, users>>

----------------------------------------------------------------------------
(* The whole API from an empty database *)

Init ==
    /\ orders = <<>>
    /\ notes = {}
    /\ notifications = {}
    /\ nextId = 1
    /\ procs = [p \in 1..MaxProcs |-> IdleProc]
    /\ now = 0
    /\ tz = 0
    /\ WhatsApp = LinkedClient
    /\ users = {}

OrderIds == 1..MaxOrders

NoneDone == \A p \in Procs : procs[p].pc # "done"

\* no request is in flight
Quiet == \A p \in Procs : procs[p].pc = "idle"

\* the requests that may take a step: a response is delivered as soon as it
\* is produced (delivering it touches no shared state, so this order loses no
\* interleaving of store operations)
Ready == IF NoneDone THEN Procs ELSE {}

\* the lifecycle commands alone (no generic update, no migration): a command
\* arrives at its handler and runs up to its first store operation, or a
\* handler in flight performs its next store operation.  Here the store and
\* the WhatsApp channel are healthy; their failures are the subject of the
\* notification and delivery-note scenarios below.  The server runs in UTC;
\* other offsets, and a handler that straddles a tick, are the subject of
\* the gate scenarios below
NextHandlers ==
    \/ \E p \in Procs : Return(p)
    \/ \E p \in Ready, valid \in BOOLEAN : Create(p, valid)
    \/ \E p \in Ready : CreateNotify(p, "ok", TRUE)
    \/ \E p \in Ready, id \in OrderIds : Delete(p, id)
    \/ \E p \in Ready, id \in OrderIds : UploadPaymentRead(p, id)
    \/ \E p \in Ready : UploadPaymentWrite(p)
    \/ \E p \in Ready, id \in OrderIds : VerifyRead(p, id)
    \/ \E p \in Ready : VerifyWrite(p)
    \/ \E p \in Ready, id \in OrderIds : RejectRead(p, id, "finance", "unreadable")
    \/ \E p \in Ready : RejectWrite(p)
    \/ \E p \in Ready, id \in OrderIds, name, phone, plate \in BOOLEAN :
          SubmitDriverRead(p, id, name, phone, plate)
    \/ \E p \in Ready : SubmitDriverWrite(p)
    \/ \E p \in Ready, id \in OrderIds : ScanRead(p, id)
    \/ \E p \in Ready : ScanNumber(p)
    \/ \E p \in Ready : ScanWrite(p)
    \/ \E p \in Ready : CallNextCount(p, TRUE)
    \/ \E p \in Ready : CallNextFind(p)
    \/ \E p \in Ready : CallNextWrite(p)
    \/ \E p \in Ready, id \in OrderIds : CallQueueRead(p, id)
    \/ \E p \in Ready : CallQueueWrite(p)
    \/ \E p \in Ready, id \in OrderIds : FinishLoadingRead(p, id)
    \/ \E p \in Ready : FinishLoadingWrite(p)
    \/ \E p \in Ready, id \in OrderIds : DeliveryCreateRead(p, id)
    \/ \E p \in Ready : DeliveryCreateInsert(p, TRUE)
    \/ \E p \in Ready : DeliveryCreateUpdate(p, TRUE)
    \/ \E p \in Ready : DeliveryCreateNotify(p, "ok", TRUE)

\* the lifecycle commands over time: the clock advances between requests
NextCommands ==
    \/ NextHandlers
    \/ Quiet /\ Tick

SpecCommands == Init /\ [][NextCommands]_vars

\* every routed handler that writes orders, at one instant: the generic
\* update and the migration read no clock
Next ==
    \/ NextHandlers
    \/ \E p \in Ready, id \in OrderIds, st \in UpdateInputs : Update(p, id, st)
    \/ \E p \in Ready : ResetOrders(p)

Spec == Init /\ [][Next]_vars

----------------------------------------------------------------------------
(* Scenario: operators press "call next" concurrently *)

\* an order after upload, verification, driver submission and a scan at
\* instant t that issued queue number n
QueuedOrder(n, t) ==
    [NewOrder EXCEPT
        !.status = OrderStatusQueued,
        !.payment_status = PaymentStatusVerified,
        !.payment_proof = TRUE,
        !.driver_name = TRUE,
        !.driver_phone = TRUE,
        !.vehicle_plate = TRUE,
        !.queue_number = n,
        !.queue_entered_at = t,
        !.estimated_time = (n - 1) * QueueDurationMinutes]

\* BayOrders orders scanned in turn today; some were called and finished
\* since, and at most one is at the bay
InitBay ==
    /\ \E st \in [1..BayOrders -> {OrderStatusQueued, OrderStatusLoading, OrderStatusCompleted}] :
          /\ Cardinality({i \in 1..BayOrders : st[i] = OrderStatusLoading}) <= 1
          /\ orders = [i \in 1..BayOrders |-> [QueuedOrder(i, 0) EXCEPT !.status = st[i]]]
    /\ notes = {}
    /\ notifications = {}
    /\ nextId = BayOrders + 1
    /\ procs = [p \in 1..MaxProcs |-> IdleProc]
    /\ now = 0
    /\ tz = 0
    /\ WhatsApp = LinkedClient
    /\ users = {}

\* only CallNext requests run, one per slot, and no FinishLoading intervenes
NextBay ==
    \/ \E p \in Procs : CallNextCount(p, TRUE)
    \/ \E p \in Procs : CallNextFind(p)
    \/ \E p \in Procs : CallNextWrite(p)

SpecBay == InitBay /\ [][NextBay]_vars

\* exactly one order is queued, none is loading, and two CallNext requests run
InitBayOne ==
    /\ \E q \in 1..BayOrders :
          orders = [i \in 1..BayOrders |->
                       [QueuedOrder(i, 0) EXCEPT
                           !.status = IF i = q THEN OrderStatusQueued ELSE OrderStatusCompleted]]
    /\ notes = {}
    /\ notifications = {}
    /\ nextId = BayOrders + 1
    /\ procs = [p \in 1..2 |-> IdleProc]
    /\ now \in 0..MaxTime
    /\ tz \in TzOffsets
    /\ WhatsApp = LinkedClient
    /\ users = {}

SpecBayOne == InitBayOne /\ [][NextBay]_vars

AllDone == \A p \in Procs : procs[p].pc = "done"

\* C1: in every reachable state at most one order has status loading, however
\* concurrently executing CallNext requests interleave (no FinishLoading runs)
AtMostOneLoading == LoadingCount <= 1

\* C2: with exactly one order queued and none loading, once two concurrent
\* CallNext requests have both returned, exactly one of them returned that
\* order, now loading, and the other was refused; they never both succeed.
\* The refusal is read generously: the empty-queue response (404) or the
\* bay-busy response (400), both of them admission errors.
OneCallNextWins ==
    AllDone =>
        \E p \in Procs :
            /\ procs[p].res = 200
            /\ orders[procs[p].id].status = OrderStatusLoading
            /\ \A q \in Procs \ {p} : procs[q].res \in {400, 404}

\* C5: whenever CallNext succeeds, the order it moves to loading is, at the
\* moment of the write, queued and of the smallest queue_number among the
\* queued orders
CallNextTakesSmallest ==
    [][\A p \in Procs :
          (procs[p].op = "CallNext" /\ procs[p].pc = "found" /\ procs'[p].pc = "done")
              => /\ orders[procs[p].id].status = OrderStatusQueued
                 /\ \A q \in DOMAIN orders :
                       orders[q].status = OrderStatusQueued
                           => orders[procs[p].id].queue_number <= orders[q].queue_number]_vars

----------------------------------------------------------------------------
(* Scenario: trucks are scanned at the gate concurrently *)

\* an order whose payment is verified and whose driver data and barcode are in
EligibleOrder ==
    [NewOrder EXCEPT
        !.status = OrderStatusConfirmed,
        !.payment_status = PaymentStatusVerified,
        !.payment_proof = TRUE,
        !.driver_name = TRUE,
        !.driver_phone = TRUE,
        !.vehicle_plate = TRUE,
        !.queue_barcode = TRUE]

\* ScanOrders eligible orders, nothing queued yet, one scan request per order
InitScan ==
    /\ orders = [i \in 1..ScanOrders |-> EligibleOrder]
    /\ notes = {}
    /\ notifications = {}
    /\ nextId = ScanOrders + 1
    /\ procs = [p \in 1..ScanOrders |-> IdleProc]
    /\ now = 0
    /\ tz \in TzOffsets
    /\ WhatsApp = LinkedClient
    /\ users = {}

\* request p scans the barcode of order p
NextScan ==
    \/ \E p \in Procs : ScanRead(p, p)
    \/ \E p \in Procs : ScanNumber(p)
    \/ \E p \in Procs : ScanWrite(p)
    \/ Tick

SpecScan == InitScan /\ [][NextScan]_vars

Entered == {o \in DOMAIN orders : orders[o].queue_entered_at # NilTime}

SameDay(a, b) == LocalDay(orders[a].queue_entered_at) = LocalDay(orders[b].queue_entered_at)

\* C3: once N concurrent scans of N distinct eligible orders have all
\* succeeded on one day, the numbers issued are exactly 1..N
ScansIssueOneToN ==
    (/\ AllDone
     /\ \A p \in Procs : procs[p].res = 200
     /\ \A a, b \in Entered : SameDay(a, b))
        => {orders[o].queue_number : o \in DOMAIN orders} = 1..ScanOrders

\* C4: queue numbers of one calendar day are distinct, ordered like the entry
\* times, and the day's first entry has number 1
QueueNumbersPerDay ==
    /\ \A a, b \in Entered :
          (a # b /\ SameDay(a, b))
              => /\ orders[a].queue_number # orders[b].queue_number
                 /\ (orders[a].queue_entered_at < orders[b].queue_entered_at
                        => orders[a].queue_number < orders[b].queue_number)
    /\ \A a \in Entered :
          \E b \in Entered :
              /\ SameDay(a, b)
              /\ orders[b].queue_entered_at <= orders[a].queue_entered_at
              /\ orders[b].queue_number = 1

----------------------------------------------------------------------------
(* The transition table of the order lifecycle *)

TableEdges ==
    {<<OrderStatusPending, OrderStatusPaid>>,
     <<OrderStatusPaid, OrderStatusConfirmed>>,
     <<OrderStatusConfirmed, OrderStatusQueued>>,
     <<OrderStatusQueued, OrderStatusLoading>>,
     <<OrderStatusLoading, OrderStatusCompleted>>}
    \cup ({OrderStatusPending, OrderStatusPaid, OrderStatusConfirmed, OrderStatusQueued}
             \X {OrderStatusCancelled})

\* the statuses from which the table lists the event a handler implements
TableSources(op) ==
    CASE op = "UploadPayment" -> {OrderStatusPending}
      [] op = "Verify" -> {OrderStatusPaid}
      [] op = "Reject" -> {OrderStatusPaid}
      [] op = "SubmitDriver" -> {OrderStatusConfirmed}
      [] op = "Scan" -> {OrderStatusConfirmed}
      [] op = "CallQueue" -> {OrderStatusQueued}
      [] op = "FinishLoading" -> {OrderStatusLoading}
      [] op = "Delete" -> {OrderStatusPending, OrderStatusPaid, OrderStatusConfirmed, OrderStatusQueued}
      [] OTHER -> {}

EventOps ==
    {"UploadPayment", "Verify", "Reject", "SubmitDriver", "Scan", "CallQueue",
     "FinishLoading", "Delete"}

\* the orders present before and after a step
Kept == DOMAIN orders \cap DOMAIN orders'

\* C6: every change of an order's status, by any exposed operation, is an
\* edge of the transition table (and so stays within the seven statuses)
StatusFollowsTable ==
    [][\A o \in Kept :
          orders'[o].status # orders[o].status
              => <<orders[o].status, orders'[o].status>> \in TableEdges]_vars

\* C7: an event invoked on an order whose status is not a listed source of
\* that event returns an error at once and leaves the order unchanged
UnlistedEventRejected ==
    [][\A p \in Procs :
          (/\ procs[p].pc = "idle"
           /\ procs'[p].op \in EventOps
           /\ Exists(procs'[p].id)
           /\ orders[procs'[p].id].status \notin TableSources(procs'[p].op))
              => /\ procs'[p].pc = "done"
                 /\ procs'[p].res >= 400
                 /\ orders' = orders]_vars

\* C8: cancelling a loading order fails and leaves it loading, and an order
\* becomes cancelled only from pending, paid, confirmed or queued
CancelNotFromLoading ==
    [][/\ \A p \in Procs :
             (/\ procs[p].pc = "idle"
              /\ procs'[p].op = "Delete"
              /\ Exists(procs'[p].id)
              /\ orders[procs'[p].id].status = OrderStatusLoading)
                 => /\ procs'[p].res >= 400
                    /\ orders'[procs'[p].id].status = OrderStatusLoading
       /\ \A o \in Kept :
             (orders'[o].status = OrderStatusCancelled /\ orders[o].status # OrderStatusCancelled)
                 => orders[o].status \in TableSources("Delete")]_vars

\* C9: once an order is completed or cancelled, no command changes its status
TerminalStatusStays ==
    [][\A o \in Kept :
          orders[o].status \in {OrderStatusCompleted, OrderStatusCancelled}
              => orders'[o].status = orders[o].status]_vars

\* C10: an order that is confirmed, queued, loading or completed has its
\* payment verified
ConfirmedIsVerified ==
    \A o \in DOMAIN orders :
        orders[o].status \in {OrderStatusConfirmed, OrderStatusQueued,
                              OrderStatusLoading, OrderStatusCompleted}
            => orders[o].payment_status = PaymentStatusVerified

----------------------------------------------------------------------------
(* Scenario: customers upload proofs while finance verifies and rejects *)

\* an order whose proof was uploaded and whose payment awaits a decision
PaidOrder ==
    [NewOrder EXCEPT !.status = OrderStatusPaid, !.payment_proof = TRUE]

\* PayOrders orders, each either still awaiting its proof or paid
InitPay ==
    /\ orders \in [1..PayOrders -> {NewOrder, PaidOrder}]
    /\ notes = {}
    /\ notifications = {}
    /\ nextId = PayOrders + 1
    /\ procs = [p \in 1..MaxProcs |-> IdleProc]
    /\ now = 0
    /\ tz = 0
    /\ WhatsApp = LinkedClient
    /\ users = {}

\* each request is one upload, one Verify or one Reject for one of the orders
NextPay ==
    \/ \E p \in Procs, id \in DOMAIN orders : UploadPaymentRead(p, id)
    \/ \E p \in Procs : UploadPaymentWrite(p)
    \/ \E p \in Procs, id \in DOMAIN orders : VerifyRead(p, id)
    \/ \E p \in Procs : VerifyWrite(p)
    \/ \E p \in Procs, id \in DOMAIN orders, by \in UserIds, reason \in RejectReasons :
          RejectRead(p, id, by, reason)
    \/ \E p \in Procs : RejectWrite(p)

SpecPay == InitPay /\ [][NextPay]_vars

\* a Verify and a Reject of one order have both returned
VerifyRejectDone(p, q) ==
    /\ procs[p].op = "Verify" /\ procs[p].pc = "done"
    /\ procs[q].op = "Reject" /\ procs[q].pc = "done"
    /\ procs[p].id = procs[q].id

\* C11: when a Verify and a Reject of the same order with pending payment
\* have both returned, exactly one of them succeeded, and the order is either
\* confirmed with payment verified or paid with payment rejected
VerifyRejectExclusive ==
    \A p, q \in Procs :
        (VerifyRejectDone(p, q) /\ orders[procs[p].id].status # OrderStatusPending)
            => /\ (procs[p].res = 200) # (procs[q].res = 200)
               /\ <<orders[procs[p].id].status, orders[procs[p].id].payment_status>>
                     \in {<<OrderStatusConfirmed, PaymentStatusVerified>>,
                          <<OrderStatusPaid, PaymentStatusRejected>>}

\* C12: a Verify or Reject that arrives when the order's payment is already
\* verified or rejected is answered with an error at once and changes nothing
ResolvedPaymentStays ==
    [][\A p \in Procs :
          (/\ procs[p].pc = "idle"
           /\ procs'[p].op \in {"Verify", "Reject"}
           /\ Exists(procs'[p].id)
           /\ orders[procs'[p].id].payment_status
                 \in {PaymentStatusVerified, PaymentStatusRejected})
              => /\ procs'[p].pc = "done"
                 /\ procs'[p].res >= 400
                 /\ orders' = orders]_vars

\* C12 (witness): a Reject issued after a successful Verify was refused and
\* the order is still confirmed with payment verified
RejectAfterVerifyRefused ==
    \E p \in Procs :
        /\ procs[p].op = "Reject" /\ procs[p].pc = "done" /\ procs[p].res = 400
        /\ Exists(procs[p].id)
        /\ orders[procs[p].id].status = OrderStatusConfirmed
        /\ orders[procs[p].id].payment_status = PaymentStatusVerified

----------------------------------------------------------------------------
(* Writes against a status that has moved on *)

\* the status a handler requires of the order it read, for the handlers
\* that check the status at all
ValidatedStatus(op) ==
    CASE op = "UploadPayment" -> OrderStatusPending
      [] op = "Scan" -> OrderStatusConfirmed
      [] op = "CallNext" -> OrderStatusQueued
      [] op = "CallQueue" -> OrderStatusQueued
      [] op = "FinishLoading" -> OrderStatusLoading
      [] op = "DeliveryCreate" -> OrderStatusLoading

StatusCheckingOps ==
    {"UploadPayment", "Scan", "CallNext", "CallQueue", "FinishLoading", "DeliveryCreate"}

\* where each of these handlers stands just before its UpdateOne of the order
WritePosition(op) ==
    CASE op = "Scan" -> "numbered"
      [] op = "CallNext" -> "found"
      [] op = "DeliveryCreate" -> "inserted"
      [] OTHER -> "checked"

\* C13: when a command reaches its write and the order's status is no longer
\* the one the command validated, the write is not applied and the command
\* answers with an error
StaleWriteRefused ==
    [][\A p \in Procs :
          (/\ procs[p].op \in StatusCheckingOps
           /\ procs[p].pc = WritePosition(procs[p].op)
           /\ procs'[p].pc # procs[p].pc
           /\ Exists(procs[p].id)
           /\ orders[procs[p].id].status # ValidatedStatus(procs[p].op))
              => /\ orders' = orders
                 /\ procs'[p].pc = "done"
                 /\ procs'[p].res >= 400]_vars

----------------------------------------------------------------------------
(* Driver data *)

\* C14: an order's driver name, driver phone and vehicle plate are all empty
\* or all non-empty, and a queued, loading or completed order has all three
DriverDataComplete ==
    \A o \in DOMAIN orders :
        /\ orders[o].driver_name = orders[o].driver_phone
        /\ orders[o].driver_phone = orders[o].vehicle_plate
        /\ orders[o].status \in {OrderStatusQueued, OrderStatusLoading, OrderStatusCompleted}
              => (orders[o].driver_name /\ orders[o].driver_phone /\ orders[o].vehicle_plate)

----------------------------------------------------------------------------
(* Scenario: a customer polls the queue status while the queue moves *)

\* StatusOrders orders scanned in turn today, each of them waiting, at the
\* bay, finished or cancelled since; one query runs next to one other request
InitStatus ==
    /\ \E st \in [1..StatusOrders -> {OrderStatusQueued, OrderStatusLoading,
                                       OrderStatusCompleted, OrderStatusCancelled}] :
          orders = [i \in 1..StatusOrders |-> [QueuedOrder(i, 0) EXCEPT !.status = st[i]]]
    /\ notes = {}
    /\ notifications = {}
    /\ nextId = StatusOrders + 1
    /\ procs = [p \in 1..2 |-> IdleProc]
    /\ now = 0
    /\ tz = 0
    /\ WhatsApp = LinkedClient
    /\ users = {}

\* status queries run next to CallNext requests and cancellations
NextStatus ==
    \/ \E p \in Procs, id \in DOMAIN orders : GetQueueStatusFind(p, id)
    \/ \E p \in Procs : GetQueueStatusCount(p)
    \/ \E p \in Procs, id \in DOMAIN orders : GetOrderStatus(p, id)
    \/ \E p \in Procs : CallNextCount(p, TRUE)
    \/ \E p \in Procs : CallNextFind(p)
    \/ \E p \in Procs : CallNextWrite(p)
    \/ \E p \in Procs, id \in DOMAIN orders : Delete(p, id)
    \/ \E p \in Procs : Return(p)

SpecStatus == InitStatus /\ [][NextStatus]_vars

\* the minutes a formatted duration stands for
DurationMinutes(w) ==
    IF Len(w) = 4 THEN w[1] * 60 + w[3]
    ELSE IF w[2] = "jam" THEN w[1] * 60
    ELSE w[1]

\* the orders that are queued or loading with a queue number below that of o
AheadOf(o) ==
    {a \in DOMAIN orders :
        /\ orders[a].status \in {OrderStatusQueued, OrderStatusLoading}
        /\ orders[a].queue_number < orders[o].queue_number}

----------------------------------------------------------------------------
(* Scenario: orders are created and delivery notes issued while the store *)
(* and the WhatsApp channel may fail                                      *)

\* either an empty database, or one order at the bay
InitNotify ==
    /\ \/ orders = <<>> /\ nextId = 1
       \/ orders = (1 :> [QueuedOrder(1, 0) EXCEPT !.status = OrderStatusLoading])
             /\ nextId = 2
    /\ notes = {}
    /\ notifications = {}
    /\ procs = [p \in 1..MaxProcs |-> IdleProc]
    /\ now = 0
    /\ tz = 0
    /\ WhatsApp \in FreshClients
    /\ users = {}

NextNotify ==
    \/ \E p \in Procs, valid \in BOOLEAN : Create(p, valid)
    \/ \E p \in Procs, wa \in WhatsAppStates, stored \in BOOLEAN : CreateNotify(p, wa, stored)
    \/ \E p \in Procs, id \in DOMAIN orders : DeliveryCreateRead(p, id)
    \/ \E p \in Procs, ok \in BOOLEAN : DeliveryCreateInsert(p, ok)
    \/ \E p \in Procs, ok \in BOOLEAN : DeliveryCreateUpdate(p, ok)
    \/ \E p \in Procs, wa \in WhatsAppStates, stored \in BOOLEAN :
          DeliveryCreateNotify(p, wa, stored)
    \/ \E p \in Procs : Return(p)
    \/ handleConnected
    \/ handleDisconnected
    \/ handleLoggedOut
    \/ Logout

SpecNotify == InitNotify /\ [][NextNotify]_vars

\* where Create and DeliveryHandler.Create stand just before they notify
NotifyPosition(op) == IF op = "Create" THEN "inserted" ELSE "updated"

\* C16: whatever becomes of the notification (client not initialised, not
\* logged in, send error, record not stored), the step that notifies ends
\* the command with 201 and leaves orders and delivery notes as they were
NotificationFailureSwallowed ==
    [][\A p \in Procs :
          (/\ procs[p].op \in {"Create", "DeliveryCreate"}
           /\ procs[p].pc = NotifyPosition(procs[p].op)
           /\ procs'[p].pc # procs[p].pc)
              => /\ procs'[p].pc = "done"
                 /\ procs'[p].res = 201
                 /\ orders' = orders
                 /\ notes' = notes]_vars

\* C16 (witness): an order was created with 201 and is in the store, and no
\* notification record was stored for it
CreatedWithoutNotification ==
    \E p \in Procs :
        /\ procs[p].op = "Create" /\ procs[p].pc = "done" /\ procs[p].res = 201
        /\ Exists(procs[p].id)
        /\ \A n \in notifications : ~(n.type = "invoice" /\ n.ref = procs[p].id)

\* C17: when a store operation of DeliveryHandler.Create fails, the order is
\* unchanged and no delivery note of this request remains
NoPartialDeliveryNote ==
    [][\A p \in Procs :
          (/\ procs[p].op = "DeliveryCreate"
           /\ procs[p].pc \in {"checked", "inserted"}
           /\ procs'[p].pc = "done"
           /\ procs'[p].res = 500)
              => /\ orders' = orders
                 /\ procs[p].pc = "checked" => notes' = notes
                 /\ procs[p].pc = "inserted" => \A n \in notes' : n.id # procs[p].num]_vars

\* C18: an order's delivery_note_id, once set, does not change, and no order
\* ever has more than one delivery note
OneDeliveryNotePerOrder ==
    [][/\ \A o \in Kept :
             orders[o].delivery_note_id # 0
                 => orders'[o].delivery_note_id = orders[o].delivery_note_id
       /\ \A o \in DOMAIN orders' :
             Cardinality({n \in notes' : n.order_id = o}) <= 1]_vars

----------------------------------------------------------------------------
(* Retention of orders, and the way on after a rejected payment *)

\* C19: no step removes an order record from the store
OrdersAreRetained ==
    [][DOMAIN orders \subseteq DOMAIN orders']_vars

\* C20: a proof upload for a paid order whose payment was rejected is
\* accepted (it passes the handler's checks and goes on to its write)
ReuploadAfterRejectAccepted ==
    [][\A p \in Procs :
          (/\ procs[p].pc = "idle"
           /\ procs'[p].op = "UploadPayment"
           /\ Exists(procs'[p].id)
           /\ orders[procs'[p].id].status = OrderStatusPaid
           /\ orders[procs'[p].id].payment_status = PaymentStatusRejected)
              => procs'[p].pc = "checked"]_vars

----------------------------------------------------------------------------
(* Scenario: orders are called to the bay by number and by id *)

\* CallNext requests and per-order CallQueue requests, one per slot
NextCall ==
    \/ NextBay
    \/ \E p \in Procs, id \in DOMAIN orders : CallQueueRead(p, id)
    \/ \E p \in Procs : CallQueueWrite(p)

SpecCall == InitBay /\ [][NextCall]_vars

\* C21: an order goes from queued to loading only when no order is loading,
\* and a CallNext or CallQueue that arrives while an order is loading is
\* refused
CallRefusedWhileLoading ==
    [][/\ \A o \in Kept :
             (orders[o].status = OrderStatusQueued /\ orders'[o].status = OrderStatusLoading)
                 => LoadingCount = 0
       /\ \A p \in Procs :
             (/\ procs[p].pc = "idle"
              /\ procs'[p].op \in {"CallNext", "CallQueue"}
              /\ LoadingCount > 0)
                 => /\ procs'[p].pc = "done"
                    /\ procs'[p].res >= 400]_vars

----------------------------------------------------------------------------
(* Verification and rejection of a payment, step by step *)

\* C22: a Verify succeeds only on a paid order with proof and pending
\* payment, and then sets payment verified and status confirmed; on an
\* order of any other status it answers with an error and changes nothing
VerifyOnlyFromPaid ==
    [][\A p \in Procs :
          /\ (/\ procs[p].pc = "idle"
               /\ procs'[p].op = "Verify"
               /\ Exists(procs'[p].id)
               /\ \/ orders[procs'[p].id].status # OrderStatusPaid
                  \/ ~orders[procs'[p].id].payment_proof
                  \/ orders[procs'[p].id].payment_status # PaymentStatusPending)
                  => /\ procs'[p].pc = "done"
                     /\ procs'[p].res >= 400
                     /\ orders' = orders
          /\ (/\ procs[p].op = "Verify"
               /\ procs[p].pc = "checked"
               /\ procs'[p].pc = "done"
               /\ procs'[p].res = 200)
                  => /\ orders'[procs[p].id].payment_status = PaymentStatusVerified
                     /\ orders'[procs[p].id].status = OrderStatusConfirmed]_vars

\* C23: a successful Reject sets the payment rejected together with the
\* reason and the user of the request and the time of the write, and leaves
\* every other field of the order, and every other order, as it was
RejectChangesPaymentOnly ==
    [][\A p \in Procs :
          (/\ procs[p].op = "Reject"
           /\ procs[p].pc = "checked"
           /\ procs'[p].pc = "done"
           /\ procs'[p].res = 200)
              => orders' = [orders EXCEPT ![procs[p].id] =
                               [@ EXCEPT !.payment_status = PaymentStatusRejected,
                                         !.payment_rejected_at = now,
                                         !.payment_rejected_by = procs[p].by,
                                         !.payment_reject_reason = procs[p].reason]]]_vars

\* C23 (witness): a paid order whose payment was rejected with a reason by a
\* user; it is still paid and still has its proof
RejectedWithReason ==
    \E p \in Procs :
        /\ procs[p].op = "Reject" /\ procs[p].pc = "done" /\ procs[p].res = 200
        /\ orders[procs[p].id].payment_status = PaymentStatusRejected
        /\ orders[procs[p].id].payment_reject_reason = "unreadable"
        /\ orders[procs[p].id].payment_rejected_by = "finance"
        /\ orders[procs[p].id].payment_rejected_at = now
        /\ orders[procs[p].id].status = OrderStatusPaid
        /\ orders[procs[p].id].payment_proof

----------------------------------------------------------------------------
(* Driver submission and gate scan, step by step *)

\* C24: a SubmitDriver is accepted only while the order is confirmed and
\* never changes the status; on an order of another status it answers with
\* an error and leaves the order as it was
SubmitDriverOnlyWhenConfirmed ==
    [][\A p \in Procs :
          /\ (/\ procs[p].pc = "idle"
               /\ procs'[p].op = "SubmitDriver"
               /\ Exists(procs'[p].id)
               /\ orders[procs'[p].id].status # OrderStatusConfirmed)
                  => /\ procs'[p].pc = "done"
                     /\ procs'[p].res >= 400
                     /\ orders' = orders
          /\ (/\ procs[p].op = "SubmitDriver"
               /\ procs[p].pc = "checked"
               /\ procs'[p].pc = "done"
               /\ Exists(procs[p].id))
                  => orders'[procs[p].id].status = orders[procs[p].id].status]_vars

\* a scan of order id that the handler's checks turn down
ScanIneligible(id) ==
    \/ ~Exists(id)
    \/ ~orders[id].queue_barcode
    \/ orders[id].status # OrderStatusConfirmed
    \/ ~(orders[id].driver_name /\ orders[id].driver_phone /\ orders[id].vehicle_plate)

\* a scan that is turned down answers with an error and changes no order
ScanFailureChangesNothing ==
    \A p \in Procs :
        (procs[p].pc = "idle" /\ procs'[p].op = "Scan" /\ ScanIneligible(procs'[p].id))
            => /\ procs'[p].pc = "done"
               /\ procs'[p].res >= 400
               /\ orders' = orders

\* a scan that succeeds leaves the order queued, numbered, timestamped and
\* without its barcode
ScanSuccessQueues ==
    \A p \in Procs :
        (/\ procs[p].op = "Scan" /\ procs[p].pc = "numbered"
         /\ procs'[p].pc = "done" /\ procs'[p].res = 200)
            => /\ orders'[procs[p].id].status = OrderStatusQueued
               /\ orders'[procs[p].id].queue_number >= 1
               /\ orders'[procs[p].id].queue_entered_at # NilTime
               /\ ~orders'[procs[p].id].queue_barcode

\* a scan succeeds only on an order that still carries the barcode and is
\* still confirmed: one barcode admits once
ScanAdmitsOnce ==
    \A p \in Procs :
        (/\ procs[p].op = "Scan" /\ procs[p].pc = "numbered"
         /\ procs'[p].pc = "done" /\ procs'[p].res = 200)
            => /\ orders[procs[p].id].queue_barcode
               /\ orders[procs[p].id].status = OrderStatusConfirmed

\* C25: a scan succeeds only for a confirmed order with its driver data; a
\* success queues the order with a number and an entry time and clears the
\* barcode, so that the barcode admits no second time; a failure changes
\* no order
ScanAdmitsConfirmedOnce ==
    [][ScanFailureChangesNothing /\ ScanSuccessQueues /\ ScanAdmitsOnce]_vars

\* C26: when a scan takes its timestamp, that timestamp lies in the day
\* window [todayStart, todayEnd) the same scan built to look up today's
\* highest queue number, at every clock time and every timezone offset
ScanWindowContainsEntry ==
    [][\A p \in Procs :
          (procs[p].op = "Scan" /\ procs[p].pc = "found" /\ procs'[p].pc = "numbered")
              => /\ procs[p].at <= procs'[p].at
                 /\ procs'[p].at < procs[p].at + DayLen]_vars

-----------------------------------------------------------------------------
(* The gate and the bay, one request at a time *)

\* ScanOrders eligible orders and a single request slot: scans,
\* cancellations, CallNext and FinishLoading follow one another, each handler
\* returning before the next begins, while the clock may pass midnight
InitGate ==
    /\ orders = [i \in 1..ScanOrders |-> EligibleOrder]
    /\ notes = {}
    /\ notifications = {}
    /\ nextId = ScanOrders + 1
    /\ procs = [p \in 1..1 |-> IdleProc]
    /\ now = 0
    /\ tz \in TzOffsets
    /\ WhatsApp = LinkedClient
    /\ users = {}

NextGate ==
    \/ \E p \in Procs : Return(p)
    \/ \E p \in Procs, id \in DOMAIN orders : ScanRead(p, id)
    \/ \E p \in Procs : ScanNumber(p)
    \/ \E p \in Procs : ScanWrite(p)
    \/ \E p \in Procs, id \in DOMAIN orders : Delete(p, id)
    \/ \E p \in Procs, ok \in BOOLEAN : CallNextCount(p, ok)
    \/ \E p \in Procs : CallNextFind(p)
    \/ \E p \in Procs : CallNextWrite(p)
    \/ \E p \in Procs, id \in DOMAIN orders : FinishLoadingRead(p, id)
    \/ \E p \in Procs : FinishLoadingWrite(p)
    \/ Tick

SpecGate == InitGate /\ [][NextGate]_vars

\* C27: after any sequence of scans, cancellations, CallNext and
\* FinishLoading, the number a new scan takes is greater than every number
\* held by an order that entered the queue earlier on the same calendar day,
\* whatever became of that order since
NewNumberExceedsEarlier ==
    [][\A p \in Procs :
          (procs[p].op = "Scan" /\ procs[p].pc = "found" /\ procs'[p].pc = "numbered")
              => \A o \in Entered :
                    LocalDay(orders[o].queue_entered_at) = LocalDay(procs'[p].at)
                        => orders[o].queue_number < procs'[p].num]_vars

\* C28: the order CallNext selects entered the queue no later than every
\* other order that is queued at that moment, also when the two entered on
\* different calendar days
CallNextIsFifoByArrival ==
    [][\A p \in Procs :
          (procs[p].op = "CallNext" /\ procs[p].pc = "counted" /\ procs'[p].pc = "found")
              => \A a \in DOMAIN orders :
                    orders[a].status = OrderStatusQueued
                        => orders[procs'[p].id].queue_entered_at <= orders[a].queue_entered_at]_vars

\* C28, the case at hand: CallNext has selected an order while another,
\* queued order holds a larger number from an earlier day
LaterDayOvertakes ==
    \E p \in Procs, a \in DOMAIN orders :
        /\ procs[p].op = "CallNext" /\ procs[p].pc = "found"
        /\ orders[a].status = OrderStatusQueued
        /\ orders[a].queue_number > orders[procs[p].id].queue_number
        /\ LocalDay(orders[a].queue_entered_at) < LocalDay(orders[procs[p].id].queue_entered_at)
        /\ tz = 0

\* C30: a CallNext that arrives while some order is loading answers 400
\* (bay busy); one that finds no order loading and no order queued answers
\* 404 (empty queue); and a CallNext that answers anything but 200 has
\* changed no order
CallNextFailsCleanly ==
    [][\A p \in Procs :
          /\ (procs[p].pc = "idle" /\ procs'[p].op = "CallNext" /\ LoadingCount > 0)
                => (procs'[p].pc = "done" /\ procs'[p].res = 400 /\ orders' = orders)
          /\ (/\ procs[p].op = "CallNext" /\ procs[p].pc = "counted"
              /\ procs'[p] # procs[p]
              /\ LoadingCount = 0
              /\ \A o \in DOMAIN orders : orders[o].status # OrderStatusQueued)
                => (procs'[p].pc = "done" /\ procs'[p].res = 404 /\ orders' = orders)
          /\ (/\ procs'[p].op = "CallNext" /\ procs'[p].pc = "done"
              /\ procs[p].pc # "done"
              /\ procs'[p].res # 200)
                => (procs'[p].res \in {400, 404} /\ orders' = orders)]_vars

\* C30, what follows when the count fails: with handlers running strictly one
\* after another, a CallNext has answered 200 and two orders are loading
SecondOrderAdmitted ==
    /\ LoadingCount = 2
    /\ \E p \in Procs :
          procs[p].op = "CallNext" /\ procs[p].pc = "done" /\ procs[p].res = 200

-----------------------------------------------------------------------------
(* The queue over many days, with operators who keep working *)

\* a queue_entered_at before the start of the current day frame: it is in no
\* day window that any later scan can build
Earlier == NilTime - 1

\* the gate, the CallNext operator and the FinishLoading operator each have
\* a request slot of their own
GateSlot == 3
CallSlot == 1
FinishSlot == 2

InitFair ==
    /\ orders = [i \in 1..ScanOrders |-> EligibleOrder]
    /\ notes = {}
    /\ notifications = {}
    /\ nextId = ScanOrders + 1
    /\ procs = [p \in 1..3 |-> IdleProc]
    /\ now = 0
    /\ tz = 0
    /\ WhatsApp = LinkedClient
    /\ users = {}

\* midnight has passed and no request is in flight: instants are counted from
\* the new day's midnight on.  Scan compares queue_entered_at with the window
\* of the current date only, so entries of past days need no more than the
\* mark Earlier
NewDay ==
    /\ now >= DayLen
    /\ \A p \in Procs : procs[p].pc = "idle"
    /\ now' = now - DayLen
    /\ orders' = [o \in DOMAIN orders |->
            [orders[o] EXCEPT !.queue_entered_at =
                IF @ = NilTime THEN NilTime
                ELSE IF @ >= DayLen THEN @ - DayLen
                ELSE Earlier]]
    /\ UNCHANGED <<notes, notifications, nextId, procs, tz, WhatsApp, users>>

\* a new order reaches the gate, confirmed, paid and with its driver data.
\* It takes the place of an order that was completed and entered the queue
\* on a past day: no Scan, CallNext or FinishLoading reads such an order again
Arrive(o) ==
    /\ orders[o].status = OrderStatusCompleted
    /\ orders[o].queue_entered_at = Earlier
    /\ \A p \in Procs : procs[p].id # o
    /\ orders' = [orders EXCEPT ![o] = EligibleOrder]
    /\ UNCHANGED <<notes, notifications, nextId, procs, now, tz, WhatsApp, users>>

\* the operator at the bay issues CallNext again and again
CallNextSteps ==
    \/ CallNextCount(CallSlot, TRUE)
    \/ CallNextFind(CallSlot)
    \/ CallNextWrite(CallSlot)
    \/ Return(CallSlot)

\* the operator issues FinishLoading for the order that is loading
FinishLoadingSteps ==
    \/ \E id \in DOMAIN orders :
          orders[id].status = OrderStatusLoading /\ FinishLoadingRead(FinishSlot, id)
    \/ FinishLoadingWrite(FinishSlot)
    \/ Return(FinishSlot)

NextFair ==
    \/ CallNextCount(CallSlot, TRUE)
    \/ CallNextFind(CallSlot)
    \/ CallNextWrite(CallSlot)
    \/ \E id \in DOMAIN orders :
          orders[id].status = OrderStatusLoading /\ FinishLoadingRead(FinishSlot, id)
    \/ FinishLoadingWrite(FinishSlot)
    \/ \E id \in DOMAIN orders : ScanRead(GateSlot, id)
    \/ ScanNumber(GateSlot)
    \/ ScanWrite(GateSlot)
    \/ \E p \in Procs : Return(p)
    \/ \E o \in DOMAIN orders : Arrive(o)
    \/ Tick
    \/ NewDay

\* weak fairness on CallNext and on FinishLoading: a handler that has begun
\* runs to its response, and the operators never stop issuing requests
SpecFair ==
    /\ InitFair
    /\ [][NextFair]_vars
    /\ WF_vars(CallNextSteps)
    /\ WF_vars(FinishLoadingSteps)

\* C29: every order that is queued is eventually loading, while operators
\* keep issuing CallNext and FinishLoading, no order is cancelled, and new
\* orders keep entering the queue on the same or on later days
NoQueuedOrderStarves ==
    \A o \in 1..ScanOrders :
        (orders[o].status = OrderStatusQueued) ~> (orders[o].status = OrderStatusLoading)

-----------------------------------------------------------------------------
(* Estimates *)

\* C31: the estimate that order-status polling returns for a queued order is
\* 30 minutes for each order queued or loading ahead of it when the query
\* runs: none is served from what was stored when the order entered the queue
PolledEstimateIsCurrent ==
    [][\A p \in Procs :
          (/\ procs[p].pc = "idle"
           /\ procs'[p].op = "GetOrderStatus"
           /\ procs'[p].res = 200
           /\ orders[procs'[p].id].status = OrderStatusQueued)
              => procs'[p].at = QueueDurationMinutes * Cardinality(AheadOf(procs'[p].id))]_vars

\* C31, the case at hand: the order ahead of a queued order was cancelled, none
\* is ahead of it any more, and polling it still returns the half hour stored
\* at its scan
StoredEstimateServed ==
    \E p \in Procs :
        /\ procs[p].op = "GetOrderStatus" /\ procs[p].pc = "done" /\ procs[p].res = 200
        /\ orders[procs[p].id].status = OrderStatusQueued
        /\ AheadOf(procs[p].id) = {}
        /\ procs[p].at = QueueDurationMinutes
        /\ \E a \in DOMAIN orders :
              /\ orders[a].status = OrderStatusCancelled
              /\ orders[a].queue_number < orders[procs[p].id].queue_number

\* C32: the wait that a scan stores for the order it queues is 30 minutes
\* for each order that is queued or loading with a smaller queue number at
\* that moment, also when earlier numbers of the day belong to orders that
\* are completed or cancelled by then
ScanEstimateCountsWaiting ==
    [][\A p \in Procs :
          (/\ procs[p].op = "Scan" /\ procs[p].pc = "numbered"
           /\ procs'[p].pc = "done" /\ procs'[p].res = 200)
              => orders'[procs[p].id].estimated_time =
                    QueueDurationMinutes *
                        Cardinality({a \in DOMAIN orders :
                            /\ a # procs[p].id
                            /\ orders[a].status \in {OrderStatusQueued, OrderStatusLoading}
                            /\ orders[a].queue_number < procs[p].num})]_vars

-----------------------------------------------------------------------------
(* What a command reports about its notification *)

\* C33: a Create or a DeliveryHandler.Create reports whatsapp_auto_sent only
\* when its message went out through the WhatsApp session: never while the
\* client is disconnected, and never when the record it stored says the
\* customer has to be reached through the wa.me link
AutoSentMeansSent ==
    [][\A p \in Procs :
          (/\ procs[p].op \in {"Create", "DeliveryCreate"}
           /\ procs[p].pc = NotifyPosition(procs[p].op)
           /\ procs'[p].pc = "done"
           /\ procs'[p].auto_sent)
              => /\ WhatsApp.connected
                 /\ \A n \in notifications' \ notifications : n.sent_via = "whatsapp"]_vars

\* C33, the case at hand: the session is logged in but the connection is
\* down, the stored record names the wa.me link, and the order was created
\* with whatsapp_auto_sent
AutoSentWhileDisconnected ==
    \E p \in Procs :
        /\ procs[p].op = "Create" /\ procs[p].pc = "done" /\ procs[p].res = 201
        /\ procs[p].auto_sent
        /\ ~WhatsApp.connected
        /\ [type |-> "invoice", ref |-> procs[p].id, sent_via |-> "wa.me"] \in notifications
        /\ [type |-> "invoice", ref |-> procs[p].id, sent_via |-> "whatsapp"] \notin notifications

-----------------------------------------------------------------------------
(* Losing a concurrent write *)

\* what Verify, Reject and CallNext required of the order when they read it,
\* asked again of the order as it is now
PreconditionHolds(op, id) ==
    CASE op = "CallNext" -> orders[id].status = OrderStatusQueued /\ LoadingCount = 0
      [] op = "Verify" -> orders[id].payment_proof /\ orders[id].payment_status = PaymentStatusPending
      [] op = "Reject" -> orders[id].payment_status = PaymentStatusPending

\* C34: a Verify, Reject or CallNext that lost a concurrent write (what it
\* required of the order no longer holds when it comes to write) does not
\* write on the strength of its first read: its precondition is checked
\* again, and the command ends with the retryable conflict 409 and no change
LostWriteIsConflict ==
    [][\A p \in Procs :
          (/\ procs[p].op \in {"Verify", "Reject", "CallNext"}
           /\ procs[p].pc = WritePosition(procs[p].op)
           /\ procs'[p].pc # procs[p].pc
           /\ Exists(procs[p].id)
           /\ ~PreconditionHolds(procs[p].op, procs[p].id))
              => /\ orders' = orders
                 /\ procs'[p].pc = "done"
                 /\ procs'[p].res = 409]_vars

-----------------------------------------------------------------------------
(* Leaving the bay *)

\* C35: a FinishLoading that answers 200 found its order loading when it
\* wrote, and made it completed with completed_at set, changing nothing
\* else; and with no order loading, a CallNext is not refused as bay-busy
\* and goes on to an order when the queue is not empty
FinishLoadingFreesBay ==
    [][\A p \in Procs :
          /\ (/\ procs[p].op = "FinishLoading" /\ procs[p].pc = "checked"
              /\ procs'[p].pc = "done" /\ procs'[p].res = 200)
                => /\ orders[procs[p].id].status = OrderStatusLoading
                   /\ orders' = [orders EXCEPT ![procs[p].id] =
                                    [@ EXCEPT !.status = OrderStatusCompleted,
                                              !.completed_at = now]]
          /\ (procs[p].pc = "idle" /\ procs'[p].op = "CallNext" /\ LoadingCount = 0)
                => procs'[p].pc = "counted"
          /\ (/\ procs[p].op = "CallNext" /\ procs[p].pc = "counted"
              /\ procs'[p] # procs[p] /\ NextQueued # {})
                => (procs'[p].pc = "found" /\ procs'[p].id \in NextQueued)]_vars

\* C36: every completed order has a delivery note
CompletedHasDeliveryNote ==
    \A o \in DOMAIN orders :
        orders[o].status = OrderStatusCompleted => orders[o].delivery_note_id # 0

\* C36, the second half: an order completed by FinishLoading has no delivery
\* note, and DeliveryHandler.Create has refused to issue one
NoteRefusedAfterFinish ==
    \E p \in Procs :
        /\ procs[p].op = "DeliveryCreate" /\ procs[p].pc = "done" /\ procs[p].res = 400
        /\ Exists(procs[p].id)
        /\ orders[procs[p].id].status = OrderStatusCompleted
        /\ orders[procs[p].id].completed_at # NilTime
        /\ orders[procs[p].id].delivery_note_id = 0
        /\ notes = {}

-----------------------------------------------------------------------------
(* Not found *)

\* C37: a command that ends with the not-found outcome (unknown id, token or
\* barcode, or CallNext on an empty queue) answers with status 404, which a
\* client can tell from the 200 of a success
NotFoundIs404 ==
    \A p \in Procs :
        (procs[p].pc = "done" /\ procs[p].res = 404)
            => (procs[p].http = 404 /\ procs[p].http # 200)

\* C37, the case at hand: CallNext met an empty queue with the bay free and
\* answered with status 200
EmptyQueueAnswers200 ==
    \E p \in Procs :
        /\ procs[p].op = "CallNext" /\ procs[p].pc = "done" /\ procs[p].res = 404
        /\ procs[p].http = 200
        /\ LoadingCount = 0 /\ NextQueued = {}

-----------------------------------------------------------------------------
(* Genesis requests, one after another and at once *)

InitGenesis ==
    /\ orders = <<>>
    /\ notes = {}
    /\ notifications = {}
    /\ nextId = 1
    /\ procs = [p \in 1..GenesisRequests |-> IdleProc]
    /\ now = 0
    /\ tz = 0
    /\ WhatsApp = LinkedClient
    /\ users = {}

NextGenesis ==
    \/ \E p \in Procs : Return(p)
    \/ \E p \in Procs, ok \in BOOLEAN : GenesisCount(p, ok)
    \/ \E p \in Procs, ok \in BOOLEAN :
          Cardinality(users) < MaxUsers /\ GenesisInsert(p, ok)

SpecGenesis == InitGenesis /\ [][NextGenesis]_vars

\* the accounts Genesis has created
GenesisAccounts == {u \in users : u.role = "SUPERADMIN"}

\* C38: after any number of Genesis requests, one after another or at once,
\* Genesis has created at most one account, and a Genesis request that
\* arrives after an account exists is refused with 400 ("Genesis account
\* already created")
GenesisIsOneTime ==
    [][/\ Cardinality(GenesisAccounts') <= 1
       /\ \A p \in Procs :
             (procs[p].pc = "idle" /\ procs'[p].op = "Genesis" /\ GenesisAccounts # {})
                => (procs'[p].pc = "done" /\ procs'[p].res = 400)]_vars

\* C38, the case at hand: two Genesis requests have both answered 201 and two
\* superadmin accounts exist
TwoGenesisAccounts ==
    /\ Cardinality(GenesisAccounts) = 2
    /\ \E p, q \in Procs :
          /\ p # q
          /\ procs[p].op = "Genesis" /\ procs[p].pc = "done" /\ procs[p].res = 201
          /\ procs[q].op = "Genesis" /\ procs[q].pc = "done" /\ procs[q].res = 201

-----------------------------------------------------------------------------
(* One barcode, one queue number *)

\* C39: a queue number, once an order holds one, never changes, and of the
\* scans of one barcode at most one succeeds: a scan that succeeds finds the
\* order without a number, and no other scan changes the order
QueueNumberAssignedOnce ==
    [][/\ \A id \in DOMAIN orders :
             (id \in DOMAIN orders' /\ orders[id].queue_number # 0)
                => orders'[id].queue_number = orders[id].queue_number
       /\ \A p \in Procs :
             (/\ procs[p].op = "Scan" /\ procs[p].pc = "numbered"
              /\ procs'[p].pc = "done" /\ Exists(procs[p].id))
                => IF orders[procs[p].id].queue_number = 0
                   THEN procs'[p].res = 200
                   ELSE procs'[p].res # 200 /\ orders' = orders]_vars

\* C39, the case at hand: the only order ever created was scanned twice with
\* its one barcode; the second scan has answered 200 and the order holds
\* number 2, the day's second number
BarcodeAdmittedTwice ==
    /\ nextId = 2
    /\ \E p \in Procs :
          /\ procs[p].op = "Scan" /\ procs[p].pc = "done" /\ procs[p].res = 200
          /\ Exists(procs[p].id)
          /\ orders[procs[p].id].status = OrderStatusQueued
          /\ orders[procs[p].id].queue_number = 2

-----------------------------------------------------------------------------
(* The two flags of the WhatsApp client *)

\* C40: in every reachable state of the WhatsApp client, after any sequence
\* of Connected, PairSuccess, Disconnected and LoggedOut events and Logout
\* calls from connected = loggedIn = false, connected implies loggedIn
ConnectedImpliesLoggedIn == WhatsApp.connected => WhatsApp.loggedIn

\* C40, the events have acted: a Connected event and then a Disconnected one
\* left the client logged in and not connected
LoggedInAfterDisconnect ==
    WhatsApp.initialized /\ WhatsApp.loggedIn /\ ~WhatsApp.connected

====
